---------------------------- MODULE Spec2Model ----------------------------
(***************************************************************************)
(* Model of the job submission / polling orchestrator of the VidSquad      *)
(* front end (src/frontend/src/app/App.tsx).                               *)
(*                                                                         *)
(* The React component holds three pieces of state (currentScreen,         *)
(* jobData, error).  handleInputSubmit issues one creation request         *)
(* (generateVideo) and, when it resolves, seeds jobData, moves to the      *)
(* progress screen and starts a setInterval timer whose callback issues    *)
(* a status fetch (checkStatus) per tick and applies its response.         *)
(* handleCreateNew resets the three pieces of state.                       *)
(*                                                                         *)
(* JavaScript runs every synchronous stretch of a handler to completion,   *)
(* so each stretch between two awaits is one atomic action here; a         *)
(* promise in flight is an element of `pending` (creation requests) or     *)
(* `inflight` (status fetches) that the environment resolves or rejects    *)
(* at any later time and in any order.                                     *)
(*                                                                         *)
(* An optional value of the source (a `?:` field, a possibly missing       *)
(* message) is the empty tuple when absent and a one-element tuple when    *)
(* present.                                                                *)
(***************************************************************************)
EXTENDS Integers, Sequences, FiniteSets, TLC

(***************************************************************************)
(* Bounds of the model.                                                    *)
(***************************************************************************)
\* number of times the user presses submit
MaxSubmits == 2
\* number of timer ticks, over all timers
MaxTicks == 3

VARIABLES
    currentScreen,  \* useState<Screen>('input')
    jobData,        \* useState<JobData | null>(null)
    error,          \* useState<string>('')
    submitted,      \* number of handleInputSubmit invocations so far
    pending,        \* generateVideo calls awaiting their response
    pollInterval,   \* per invocation: the state of its setInterval timer
    jobIdOf,        \* per invocation: result.job_id captured by the closure
    ticks,          \* number of timer callbacks run so far
    inflight,       \* checkStatus calls awaiting their response
    mounted,        \* the App component is mounted
    lastOp,         \* history: the handler step that ran last
    afterReset,     \* history: handleCreateNew ran and no submit since
    priorSessions,  \* history: the timers created before that reset
    terminalSeen,   \* history: <<session, terminal status>> pairs applied
    appliedSeq      \* history: per session, the latest-issued fetch applied

vars == <<currentScreen, jobData, error, submitted, pending, pollInterval,
          jobIdOf, ticks, inflight, mounted, lastOp, afterReset,
          priorSessions, terminalSeen, appliedSeq>>

(***************************************************************************)
(* Values.                                                                 *)
(***************************************************************************)
Undefined == <<>>
Some(v) == <<v>>
Null == <<>>

\* JavaScript truthiness of an optional string: undefined and '' are falsy.
Truthy(opt) == opt # Undefined /\ opt[1] # ""

\* type Screen
Screens == {"input", "progress", "download"}

\* identifiers of the handleInputSubmit invocations (one closure each)
Sessions == 1..MaxSubmits

\* the job id the backend returns for the s-th creation request (a fresh
\* id per job)
JobIds(s) == {"job-" \o ToString(s)}

\* the result bundle of a completed job
ResultBundle == [premiere_url |-> "p.zip", capcut_url |-> "c.zip",
                 clips_count |-> 4, images_count |-> 2,
                 expires_at |-> "2026-01-01"]

\* responses checkStatus may resolve with
StatusResponses ==
    { [status |-> "queued", progress |-> 0, current_step |-> Undefined,
       eta_seconds |-> Undefined, error |-> Undefined, result |-> Undefined],
      [status |-> "processing", progress |-> 50,
       current_step |-> Some("Rendering"), eta_seconds |-> Some(30),
       error |-> Undefined, result |-> Undefined],
      [status |-> "completed", progress |-> 100,
       current_step |-> Some("Done"), eta_seconds |-> Some(0),
       error |-> Undefined, result |-> Some(ResultBundle)],
      [status |-> "completed", progress |-> 100,
       current_step |-> Some("Done"), eta_seconds |-> Some(0),
       error |-> Undefined, result |-> Undefined] }
    \cup
    { [status |-> "failed", progress |-> 50, current_step |-> Undefined,
       eta_seconds |-> Undefined, error |-> e, result |-> Undefined] :
         e \in {Undefined, Some(""), Some("X")} }

\* duration strings handleInputSubmit may be called with: the four keys of
\* the map, two strings that name no property, and a string that names a
\* property every object literal inherits
DurationLabels == {"6-9", "10-12", "18-20", "30-40", "60+", "", "constructor"}

\* titles the InputScreen may pass
Titles == {"", "My Video"}

\* err.message of a rejected generateVideo call
RejectMessages == {Undefined, Some(""), Some("Network Error")}

(***************************************************************************)
(* Pieces of the handlers.                                                 *)
(***************************************************************************)
\* a useState setter: a no-op once the component is unmounted
SetState(new, old) == IF mounted THEN new ELSE old

\* const durationMap
durationMap == [l \in {"6-9", "10-12", "18-20", "30-40"} |->
                  CASE l = "6-9" -> 450
                    [] l = "10-12" -> 660
                    [] l = "18-20" -> 1140
                    [] l = "30-40" -> 2100]

\* a JavaScript number
Num(n) == [type |-> "number", value |-> n]

\* properties durationMap, an object literal, inherits from Object.prototype
\* (all of them functions)
InheritedProperties == {"constructor", "toString", "valueOf", "hasOwnProperty"}

\* durationMap[duration]: an own property, else an inherited one, else
\* undefined
GetDuration(duration) ==
    IF duration \in DOMAIN durationMap THEN Num(durationMap[duration])
    ELSE IF duration \in InheritedProperties
         THEN [type |-> "function", name |-> duration]
         ELSE [type |-> "undefined"]

\* durationMap[duration] || 2100
DurationSeconds(duration) ==
    LET v == GetDuration(duration)
    IN  IF v.type = "function" \/ (v.type = "number" /\ v.value # 0)
        THEN v
        ELSE Num(2100)

\* title || 'Untitled Video'
TitleOrDefault(title) == IF title # "" THEN title ELSE "Untitled Video"

\* jobData?.result of the download render guard
HasResult(jd) == jd # Null /\ "result" \in DOMAIN jd /\ jd.result # Undefined

InitialJobDataProcessing(jobId) ==
    [jobId |-> jobId, status |-> "processing", progress |-> 0,
     currentStep |-> Some("Starting...")]

\* the record of the first setJobData of handleInputSubmit
InitialJobData(jobId) ==
    [jobId |-> jobId, status |-> "queued", progress |-> 0,
     currentStep |-> Some("Starting...")]

\* the record of the setJobData of the poll callback
PolledJobData(jobId, st) ==
    [jobId |-> jobId, status |-> st.status, progress |-> st.progress,
     currentStep |-> st.current_step, etaSeconds |-> st.eta_seconds,
     error |-> st.error, result |-> st.result]

ClearsIntervalOnCompletedOnly(status) == status = "completed"

ClearsIntervalAlways(status) == TRUE

\* the statuses on which the poll callback calls clearInterval(pollInterval)
ClearsInterval(status) == status \in {"completed", "failed"}

\* the screen after the poll callback: setCurrentScreen('download') on completed
ScreenAfterPoll(status, screen) ==
    IF status = "completed" THEN "download" ELSE screen

FailedMessageNoFallback(st) ==
    IF st.error # Undefined THEN st.error[1] ELSE "Video generation failed"

\* status.error || 'Video generation failed'
FailedMessage(st) ==
    IF Truthy(st.error) THEN st.error[1] ELSE "Video generation failed"

SubmitErrorMessageNoFallback(msg) ==
    IF msg # Undefined THEN msg[1] ELSE "Failed to start video generation"

\* err.message || 'Failed to start video generation'
SubmitErrorMessage(msg) ==
    IF Truthy(msg) THEN msg[1] ELSE "Failed to start video generation"

IntervalAfterRejectStops(intervals, s) ==
    [intervals EXCEPT ![s] = "cleared"]

\* the timers after the inner catch, which calls no clearInterval
IntervalAfterReject(intervals, s) == intervals

\* the number of consecutive rejected status fetches ending with step op
ConsecutiveRejects(op) == IF op.op = "pollReject" THEN op.rejects ELSE 0

CreateNewStateKeepsError ==
    [jobData |-> Null, error |-> error, currentScreen |-> "input"]

CreateNewStateKeepsScreen ==
    [jobData |-> Null, error |-> "", currentScreen |-> currentScreen]

\* the three setters of handleCreateNew
CreateNewState ==
    [jobData |-> Null, error |-> "", currentScreen |-> "input"]

(***************************************************************************)
(* Initial state: the component as constructed by its useState calls.      *)
(***************************************************************************)
Init ==
    /\ currentScreen = "input"
    /\ jobData = Null
    /\ error = ""
    /\ submitted = 0
    /\ pending = {}
    /\ pollInterval = [s \in Sessions |-> "none"]
    /\ jobIdOf = [s \in Sessions |-> "none"]
    /\ ticks = 0
    /\ inflight = {}
    /\ mounted = TRUE
    /\ lastOp = [op |-> "none"]
    /\ afterReset = FALSE
    /\ priorSessions = {}
    /\ terminalSeen = {}
    /\ appliedSeq = [s \in Sessions |-> 0]

(***************************************************************************)
(* handleInputSubmit up to its await: the InputScreen, rendered while      *)
(* currentScreen = 'input', calls onSubmit; the handler clears the error   *)
(* and issues the creation request generateVideo(script, durationSeconds,  *)
(* title || 'Untitled Video'), whose arguments lastOp records.             *)
(***************************************************************************)
HandleInputSubmit(duration, title) ==
    /\ mounted
    /\ currentScreen = "input"
    /\ submitted < MaxSubmits
    /\ submitted' = submitted + 1
    /\ error' = ""
    /\ pending' = pending \cup {submitted + 1}
    /\ lastOp' = [op |-> "submit", session |-> submitted + 1,
                  duration |-> duration,
                  durationSeconds |-> DurationSeconds(duration),
                  title |-> TitleOrDefault(title)]
    /\ afterReset' = FALSE
    /\ priorSessions' = {}
    /\ UNCHANGED <<currentScreen, jobData, pollInterval, jobIdOf, ticks,
                   inflight, mounted, terminalSeen, appliedSeq>>

(***************************************************************************)
(* handleInputSubmit after generateVideo resolved with job_id = jobId:     *)
(* seeds jobData, moves to the progress screen and starts the timer.       *)
(***************************************************************************)
SubmitResolve(s, jobId) ==
    /\ s \in pending
    /\ pending' = pending \ {s}
    /\ jobData' = SetState(InitialJobData(jobId), jobData)
    /\ currentScreen' = SetState("progress", currentScreen)
    /\ pollInterval' = [pollInterval EXCEPT ![s] = "active"]
    /\ jobIdOf' = [jobIdOf EXCEPT ![s] = jobId]
    /\ lastOp' = [op |-> "submitResolve", session |-> s, jobId |-> jobId]
    /\ UNCHANGED <<error, submitted, ticks, inflight, mounted, afterReset,
                   priorSessions, terminalSeen, appliedSeq>>

(***************************************************************************)
(* handleInputSubmit after generateVideo rejected: the outer catch.        *)
(***************************************************************************)
SubmitReject(s, msg) ==
    /\ s \in pending
    /\ pending' = pending \ {s}
    /\ error' = SetState(SubmitErrorMessage(msg), error)
    /\ lastOp' = [op |-> "submitReject", session |-> s, message |-> msg]
    /\ UNCHANGED <<currentScreen, jobData, submitted, pollInterval, jobIdOf,
                   ticks, inflight, mounted, afterReset, priorSessions,
                   terminalSeen, appliedSeq>>

(***************************************************************************)
(* One tick of the timer of session s: the callback up to its await        *)
(* issues checkStatus(result.job_id).                                      *)
(***************************************************************************)
Tick(s) ==
    /\ pollInterval[s] = "active"
    /\ ticks < MaxTicks
    /\ ticks' = ticks + 1
    /\ inflight' = inflight \cup
           {[session |-> s, seq |-> ticks + 1, jobId |-> jobIdOf[s]]}
    /\ lastOp' = [op |-> "tick", session |-> s]
    /\ UNCHANGED <<currentScreen, jobData, error, submitted, pending,
                   pollInterval, jobIdOf, mounted, afterReset, priorSessions,
                   terminalSeen, appliedSeq>>

(***************************************************************************)
(* The timer callback after checkStatus resolved with st: replaces         *)
(* jobData, and on a terminal status clears the timer and moves to the     *)
(* download screen (completed) or sets the error (failed).                 *)
(***************************************************************************)
PollResolve(f, st) ==
    /\ f \in inflight
    /\ inflight' = inflight \ {f}
    /\ jobData' = SetState(PolledJobData(f.jobId, st), jobData)
    /\ currentScreen' =
           SetState(ScreenAfterPoll(st.status, currentScreen), currentScreen)
    /\ pollInterval' = IF ClearsInterval(st.status)
                       THEN [pollInterval EXCEPT ![f.session] = "cleared"]
                       ELSE pollInterval
    /\ error' = IF st.status = "failed"
                THEN SetState(FailedMessage(st), error)
                ELSE error
    /\ lastOp' = [op |-> "pollResolve", session |-> f.session,
                  seq |-> f.seq, response |-> st,
                  afterRejects |-> ConsecutiveRejects(lastOp)]
    /\ terminalSeen' = IF st.status \in {"completed", "failed"}
                       THEN terminalSeen \cup {<<f.session, st.status>>}
                       ELSE terminalSeen
    /\ appliedSeq' = IF mounted /\ f.seq > appliedSeq[f.session]
                     THEN [appliedSeq EXCEPT ![f.session] = f.seq]
                     ELSE appliedSeq
    /\ UNCHANGED <<submitted, pending, jobIdOf, ticks, mounted, afterReset,
                   priorSessions>>

(***************************************************************************)
(* The timer callback after checkStatus rejected: the inner catch logs     *)
(* and swallows the error.                                                 *)
(***************************************************************************)
PollReject(f) ==
    /\ f \in inflight
    /\ inflight' = inflight \ {f}
    /\ pollInterval' = IntervalAfterReject(pollInterval, f.session)
    /\ lastOp' = [op |-> "pollReject", session |-> f.session, seq |-> f.seq,
                  rejects |-> ConsecutiveRejects(lastOp) + 1]
    /\ UNCHANGED <<currentScreen, jobData, error, submitted, pending,
                   jobIdOf, ticks, mounted, afterReset, priorSessions,
                   terminalSeen, appliedSeq>>

\* the only render branch that passes handleCreateNew to a child: the
\* DownloadScreen, rendered while currentScreen = 'download' and
\* jobData?.result
ResetAvailable ==
    /\ mounted
    /\ currentScreen = "download"
    /\ HasResult(jobData)

(***************************************************************************)
(* handleCreateNew: the onCreateNew callback of the DownloadScreen, which  *)
(* is rendered while currentScreen = 'download' and jobData?.result.       *)
(***************************************************************************)
HandleCreateNew ==
    /\ ResetAvailable
    /\ jobData' = CreateNewState.jobData
    /\ error' = CreateNewState.error
    /\ currentScreen' = CreateNewState.currentScreen
    /\ lastOp' = [op |-> "createNew"]
    /\ afterReset' = TRUE
    /\ priorSessions' = {s \in Sessions : pollInterval[s] # "none"}
    /\ UNCHANGED <<submitted, pending, pollInterval, jobIdOf, ticks,
                   inflight, mounted, terminalSeen, appliedSeq>>

(***************************************************************************)
(* React unmounts the App component.  The component registers no effect    *)
(* cleanup: the function handleInputSubmit returns ("Cleanup on unmount")  *)
(* is dropped by the onSubmit wrapper, so no clearInterval runs.           *)
(***************************************************************************)
Unmount ==
    /\ mounted
    /\ mounted' = FALSE
    /\ lastOp' = [op |-> "unmount"]
    /\ UNCHANGED <<currentScreen, jobData, error, submitted, pending,
                   pollInterval, jobIdOf, ticks, inflight, afterReset,
                   priorSessions, terminalSeen, appliedSeq>>

Next ==
    \/ \E d \in DurationLabels, t \in Titles : HandleInputSubmit(d, t)
    \/ \E s \in Sessions : \E j \in JobIds(s) : SubmitResolve(s, j)
    \/ \E s \in Sessions, m \in RejectMessages : SubmitReject(s, m)
    \/ \E s \in Sessions : Tick(s)
    \/ \E f \in inflight, st \in StatusResponses : PollResolve(f, st)
    \/ \E f \in inflight : PollReject(f)
    \/ HandleCreateNew

\* the lifetime of the mounted component
Spec == Init /\ [][Next]_vars

NextTeardown ==
    \/ Next
    \/ Unmount

\* the lifetime of the component including its teardown
SpecTeardown == Init /\ [][NextTeardown]_vars

(***************************************************************************)
(* Properties.                                                             *)
(***************************************************************************)
\* the timers created and not yet cancelled
ActiveTimers == {s \in Sessions : pollInterval[s] = "active"}

\* the state handleCreateNew establishes
Pristine(jd, err, screen) == jd = Null /\ err = "" /\ screen = "input"

\* C1: whenever the download screen is current, jobData is non-null and
\* carries a result.
C1_DownloadImpliesResult ==
    currentScreen = "download" => HasResult(jobData)

\* C2: after handleCreateNew and until the next submission attempt, a step
\* that handles the response of a status fetch of a timer created before the
\* reset leaves jobData null, the error empty and the screen on input.
C2_NoStaleResponseAfterReset ==
    [][(/\ afterReset
        /\ Pristine(jobData, error, currentScreen)
        /\ lastOp'.op = "pollResolve"
        /\ lastOp'.session \in priorSessions)
       => Pristine(jobData', error', currentScreen')]_vars

\* C3: in the state right after handleCreateNew, jobData is null, the error
\* is empty and the screen is input.
C3_ResetPostState ==
    lastOp.op = "createNew" => Pristine(jobData, error, currentScreen)

\* handleCreateNew has just run in a session that had surfaced a job failure
\* and still has a status fetch in flight.
C3_Witness ==
    /\ lastOp.op = "createNew"
    /\ \E s \in Sessions : <<s, "failed">> \in terminalSeen
    /\ inflight # {}

\* C4: whenever jobData is non-null the screen is progress or download.
C4_JobImpliesNotInput ==
    jobData # Null => currentScreen \in {"progress", "download"}

\* C5: whenever jobData is null the screen is input.
C5_NullImpliesInput ==
    jobData = Null => currentScreen = "input"

\* jobData is null again after a session ran to the download screen and was
\* reset, while a creation request is awaiting its response.
C5_Witness ==
    /\ jobData = Null
    /\ currentScreen = "input"
    /\ \E s \in Sessions : <<s, "completed">> \in terminalSeen
    /\ pending # {}

\* C6: at most one polling timer is active at any time.
C6_AtMostOneTimer ==
    Cardinality(ActiveTimers) <= 1

\* C7: the step that applies a failed response for a session leaves that
\* session's timer cancelled, and from then on the timer stays cancelled and
\* no status fetch of that session is issued.
C7_FailedStopsPolling ==
    [][\A s \in Sessions :
         /\ (<<s, "failed">> \in terminalSeen' \ terminalSeen)
              => pollInterval'[s] = "cleared"
         /\ (<<s, "failed">> \in terminalSeen)
              => /\ pollInterval'[s] = "cleared"
                 /\ {f \in inflight' : f.session = s} \subseteq inflight]_vars

\* a failed response was applied for a session whose timer is now cancelled,
\* later steps ran, and the tick budget is not the reason no tick fires.
C7_Witness ==
    /\ \E s \in Sessions : /\ <<s, "failed">> \in terminalSeen
                           /\ pollInterval[s] = "cleared"
    /\ lastOp.op \in {"pollReject", "pollResolve"}
    /\ ticks < MaxTicks
    /\ ActiveTimers = {}

\* C8: a step that applies a failed response sets the error to the
\* response's error, or to 'Video generation failed' when that is missing or
\* empty, and does not change the screen (a progress screen stays progress).
C8_FailedSetsError ==
    [][(lastOp'.op = "pollResolve" /\ lastOp'.response.status = "failed")
       => /\ error' = IF lastOp'.response.error \in {Undefined, Some("")}
                      THEN "Video generation failed"
                      ELSE lastOp'.response.error[1]
          /\ currentScreen' = currentScreen]_vars

\* a failed response with an empty error was just applied on the progress
\* screen, which shows the default message.
C8_Witness ==
    /\ lastOp.op = "pollResolve"
    /\ lastOp.response.status = "failed"
    /\ lastOp.response.error = Some("")
    /\ error = "Video generation failed"
    /\ currentScreen = "progress"

\* C9: the screen becomes download only in a step that applies a completed
\* response whose result is present.
C9_DownloadOnlyOnCompletedWithResult ==
    [][(currentScreen' = "download" /\ currentScreen # "download")
       => /\ lastOp'.op = "pollResolve"
          /\ lastOp'.response.status = "completed"
          /\ lastOp'.response.result # Undefined]_vars

\* C10: a step that handles a rejected creation request sets the error to a
\* non-empty message (the rejection's message, or 'Failed to start video
\* generation' when that is missing or empty), leaves jobData, every timer
\* and the screen as they were, and issues no new creation request.
C10_SubmitRejectEffect ==
    [][(lastOp'.op = "submitReject")
       => /\ error' # ""
          /\ error' = IF lastOp'.message \in {Undefined, Some("")}
                      THEN "Failed to start video generation"
                      ELSE lastOp'.message[1]
          /\ jobData' = jobData
          /\ pollInterval' = pollInterval
          /\ inflight' = inflight
          /\ currentScreen' = currentScreen
          /\ submitted' = submitted
          /\ pending' \subseteq pending]_vars

\* a creation request was just rejected with an empty message: the fallback
\* is shown on the input screen and no job exists.
C10_Witness ==
    /\ lastOp.op = "submitReject"
    /\ lastOp.message = Some("")
    /\ error = "Failed to start video generation"
    /\ jobData = Null
    /\ currentScreen = "input"
    /\ ActiveTimers = {}

\* C11: a step that handles a rejected status fetch leaves jobData, the
\* screen, the error and every timer as they were, however many rejections
\* preceded it.
C11_PollRejectChangesNothing ==
    [][(lastOp'.op = "pollReject")
       => /\ jobData' = jobData
          /\ currentScreen' = currentScreen
          /\ error' = error
          /\ pollInterval' = pollInterval]_vars

\* the second of two consecutive status fetches was just rejected: the
\* timer of its session is still active and the seeded jobData is shown.
C11_Witness ==
    /\ lastOp.op = "pollReject"
    /\ lastOp.rejects >= 2
    /\ pollInterval[lastOp.session] = "active"
    /\ jobData = InitialJobData(jobIdOf[lastOp.session])
    /\ currentScreen = "progress"
    /\ error = ""

\* C12: once the component is unmounted no timer is active and no timer
\* callback runs or handles a response.
C12_UnmountReleasesTimer ==
    ~mounted => /\ ActiveTimers = {}
                /\ lastOp.op \notin {"tick", "pollResolve", "pollReject"}

\* C13: the step that handles a resolved creation request leaves the screen
\* on progress and jobData equal to {jobId: the returned id, status: queued,
\* progress: 0, currentStep: 'Starting...'} with no other field, and starts
\* exactly one timer, that of this invocation; every tick of a timer issues
\* one status fetch, for the job id its invocation was given.
C13_SubmitResolveEffect ==
    [][/\ (lastOp'.op = "submitResolve")
            => /\ currentScreen' = "progress"
               /\ jobData' = [jobId |-> lastOp'.jobId, status |-> "queued",
                              progress |-> 0,
                              currentStep |-> Some("Starting...")]
               /\ pollInterval[lastOp'.session] = "none"
               /\ pollInterval' =
                      [pollInterval EXCEPT ![lastOp'.session] = "active"]
               /\ jobIdOf'[lastOp'.session] = lastOp'.jobId
       /\ (lastOp'.op = "tick")
            => \E f \in inflight' \ inflight :
                  /\ inflight' = inflight \cup {f}
                  /\ f.session = lastOp'.session
                  /\ f.jobId = jobIdOf[f.session]
       /\ \A x \in Sessions :
            jobIdOf[x] # "none" => jobIdOf'[x] = jobIdOf[x]]_vars

\* the second creation request was just resolved after the first session
\* had already polled: jobData is the seeded record of the second job.
C13_Witness ==
    /\ lastOp.op = "submitResolve"
    /\ lastOp.session = 2
    /\ jobData.jobId = "job-2"
    /\ jobData.status = "queued"
    /\ currentScreen = "progress"
    /\ pollInterval[2] = "active"
    /\ ticks > 0

\* C14: whenever the screen is progress or download, the start-over action
\* (handleCreateNew) is available to the user.
C14_ResetAlwaysAvailable ==
    currentScreen \in {"progress", "download"} => ResetAvailable

\* C15: every creation request is issued with the number of seconds the
\* duration resolver specifies for its label: 450, 660, 1140 or 2100 for
\* the four known labels and 2100 for every other label.
C15_DurationResolved ==
    LET specified == CASE lastOp.duration = "6-9" -> 450
                       [] lastOp.duration = "10-12" -> 660
                       [] lastOp.duration = "18-20" -> 1140
                       [] lastOp.duration = "30-40" -> 2100
                       [] OTHER -> 2100
    IN  lastOp.op = "submit" => lastOp.durationSeconds = Num(specified)

\* C16: once a terminal response has been applied for a session, a step
\* that handles the response of another status fetch of that session leaves
\* jobData, the screen and the error as they were.
C16_LateResponseDiscarded ==
    [][(/\ lastOp'.op = "pollResolve"
        /\ \E t \in {"completed", "failed"} :
              <<lastOp'.session, t>> \in terminalSeen)
       => /\ jobData' = jobData
          /\ currentScreen' = currentScreen
          /\ error' = error]_vars

\* C17: a step that handles the response of a status fetch issued before a
\* fetch of the same session whose response was already applied leaves
\* jobData, the screen and the error as they were.
C17_ResponsesAppliedInIssueOrder ==
    [][(/\ lastOp'.op = "pollResolve"
        /\ lastOp'.seq < appliedSeq[lastOp'.session])
       => /\ jobData' = jobData
          /\ currentScreen' = currentScreen
          /\ error' = error]_vars

\* C18: a timer that is active stays active through every step after which
\* no terminal response has been applied for its session; a session for
\* which a terminal response has been applied has its timer cancelled (so
\* the timer is cancelled as soon as some fetch succeeds with a terminal
\* status); and a step that applies a non-terminal response sets jobData to
\* the record of that response, also after rejected fetches.
C18_PollingStopsExactlyOnTerminal ==
    [][/\ \A s \in Sessions :
            /\ (/\ pollInterval[s] = "active"
                /\ \A t \in {"completed", "failed"} :
                      <<s, t>> \notin terminalSeen')
                 => pollInterval'[s] = "active"
            /\ (\E t \in {"completed", "failed"} : <<s, t>> \in terminalSeen')
                 => pollInterval'[s] = "cleared"
       /\ (/\ lastOp'.op = "pollResolve"
           /\ lastOp'.response.status \in {"queued", "processing"})
            => jobData' =
                 [jobId |-> jobIdOf[lastOp'.session],
                  status |-> lastOp'.response.status,
                  progress |-> lastOp'.response.progress,
                  currentStep |-> lastOp'.response.current_step,
                  etaSeconds |-> lastOp'.response.eta_seconds,
                  error |-> lastOp'.response.error,
                  result |-> lastOp'.response.result]]_vars

\* a processing response was just applied right after two rejected fetches:
\* jobData shows it and the timer of the session is still active.
C18_Witness ==
    /\ lastOp.op = "pollResolve"
    /\ lastOp.afterRejects >= 2
    /\ lastOp.response.status = "processing"
    /\ jobData.status = "processing"
    /\ jobData.progress = 50
    /\ pollInterval[lastOp.session] = "active"
    /\ terminalSeen = {}

\* C19: a step from a non-null jobData to a non-null jobData keeps its
\* jobId.
C19_JobIdImmutable ==
    [][(jobData # Null /\ jobData' # Null)
       => jobData'.jobId = jobData.jobId]_vars

\* C20: the screen changes only from input to progress in a step that
\* handles a resolved creation request, from progress to download in a step
\* that applies a completed response, and from progress or download to
\* input in handleCreateNew.
C20_ScreenTransitions ==
    [][(currentScreen' # currentScreen)
       => \/ /\ currentScreen = "input"
             /\ currentScreen' = "progress"
             /\ lastOp'.op = "submitResolve"
          \/ /\ currentScreen = "progress"
             /\ currentScreen' = "download"
             /\ lastOp'.op = "pollResolve"
             /\ lastOp'.response.status = "completed"
          \/ /\ currentScreen \in {"progress", "download"}
             /\ currentScreen' = "input"
             /\ lastOp'.op = "createNew"]_vars

=============================================================================
